---- MODULE Spec2Model ----
(***************************************************************************)
(* The install task of the firmware update daemon (src/fu-install-task.c): *)
(* the requirement pipeline fu_install_task_check_requirements, the        *)
(* PolicyKit action resolver fu_install_task_get_action_id and the task    *)
(* comparator fu_install_task_compare.                                     *)
(*                                                                         *)
(* C strings that the code only tests for equality (GUIDs, protocols,      *)
(* branches, element names) are TLA+ strings, and NULL is the pointer      *)
(* that is no string.  Version strings are compared character by character *)
(* and segment by segment, so they are sequences of ASCII codes, and       *)
(* NO_VERSION is the NULL pointer of that type.                            *)
(***************************************************************************)
EXTENDS Integers, Sequences, FiniteSets

VARIABLES
    device,         \* FuInstallTask.device: the FuDevice the task refers to
    component,      \* FuInstallTask.component: the XbNode of the component
    trust_flags,    \* FuInstallTask.trust_flags
    is_downgrade,   \* FuInstallTask.is_downgrade
    tasks,          \* an array of install tasks a caller sorts (their devices' orders)
    last            \* the most recent call on the task and what it returned

vars == <<device, component, trust_flags, is_downgrade, tasks, last>>

----------------------------------------------------------------------------
(* Values *)

NULL == "NULL"

NO_VERSION == <<>>

\* FwupdDeviceFlags the task reads
DeviceFlags ==
    {"VERSION_CHECK_REQUIRED", "LOCKED", "UPDATABLE", "ONLY_OFFLINE",
     "INTERNAL", "ONLY_VERSION_UPGRADE"}

\* FwupdInstallFlags the task reads
InstallFlags ==
    {"FORCE", "OFFLINE", "ALLOW_OLDER", "ALLOW_REINSTALL", "ALLOW_BRANCH_SWITCH"}

FWUPD_TRUST_FLAG_NONE == {}

FWUPD_TRUST_FLAG_PAYLOAD == "PAYLOAD"

FWUPD_TRUST_FLAG_METADATA == "METADATA"

\* no error set
NoError == [kind |-> "NONE", msg |-> "", args |-> <<>>]

g_set_error(kind, msg, args) == [kind |-> kind, msg |-> msg, args |-> args]

g_prefix_error(error, prefix) == [error EXCEPT !.msg = prefix \o error.msg]

----------------------------------------------------------------------------
(* Version semantics: fu-common-version.c *)

\* '.' and '0' in ASCII
DOT == 46

ZERO == 48

IsDigit(c) == c >= ZERO /\ c <= ZERO + 9

HasDot(s) == \E i \in 1..Len(s) : s[i] = DOT

RECURSIVE DecimalOf(_)
\* the decimal digits of n, as printf("%u") writes them
DecimalOf(n) ==
    IF n < 10 THEN <<ZERO + n>>
    ELSE DecimalOf(n \div 10) \o <<ZERO + (n % 10)>>

RECURSIVE NumberOf(_)
\* the value of a string of decimal digits
NumberOf(s) ==
    IF s = <<>> THEN 0
    ELSE 10 * NumberOf(SubSeq(s, 1, Len(s) - 1)) + (s[Len(s)] - ZERO)

RECURSIVE SplitDots(_)
\* g_strsplit (s, ".", -1)
SplitDots(s) ==
    IF ~HasDot(s) THEN <<s>>
    ELSE LET i == CHOOSE k \in 1..Len(s) :
                    s[k] = DOT /\ \A j \in 1..(k - 1) : s[j] # DOT
         IN  <<SubSeq(s, 1, i - 1)>> \o SplitDots(SubSeq(s, i + 1, Len(s)))

RECURSIVE strcmp(_, _)
\* strcmp on two non-NULL strings, as a sign
strcmp(a, b) ==
    IF a = <<>> /\ b = <<>> THEN 0
    ELSE IF a = <<>> THEN -1
    ELSE IF b = <<>> THEN 1
    ELSE IF Head(a) < Head(b) THEN -1
    ELSE IF Head(a) > Head(b) THEN 1
    ELSE strcmp(Tail(a), Tail(b))

RECURSIVE CompareSections(_, _)
CompareSections(sa, sb) ==
    IF sa = <<>> /\ sb = <<>> THEN 0
    ELSE IF sa = <<>> THEN -1
    ELSE IF sb = <<>> THEN 1
    ELSE IF NumberOf(Head(sa)) < NumberOf(Head(sb)) THEN -1
    ELSE IF NumberOf(Head(sa)) > NumberOf(Head(sb)) THEN 1
    ELSE CompareSections(Tail(sa), Tail(sb))

\* numeric comparison of dotted sections; a lost dot orders first
fu_common_vercmp(version_a, version_b) ==
    IF version_a = version_b THEN 0
    ELSE CompareSections(SplitDots(version_a), SplitDots(version_b))

\* three-way, format-aware: lexical for PLAIN, numeric sections otherwise
fu_common_vercmp_full(version_a, version_b, fmt) ==
    IF fmt = "PLAIN" THEN strcmp(version_a, version_b)
    ELSE fu_common_vercmp(version_a, version_b)

\* a packed 32-bit word decoded into the dotted groups of the format
fu_common_version_from_uint32(val, fmt) ==
    IF fmt = "PAIR"
    THEN DecimalOf((val \div 65536) % 65536) \o <<DOT>> \o DecimalOf(val % 65536)
    ELSE DecimalOf(val)

\* the release's raw version in the representation the format implies; the
\* string itself when it cannot be reinterpreted (dotted already, not a
\* number, zero, or too long for a 32-bit word)
fu_common_version_parse_from_format(version, fmt) ==
    IF HasDot(version) THEN version
    ELSE IF \E i \in 1..Len(version) : ~IsDigit(version[i]) THEN version
    ELSE IF Len(version) > 9 \/ NumberOf(version) = 0 THEN version
    ELSE IF fmt \notin {"PAIR", "NUMBER"} THEN version
    ELSE fu_common_version_from_uint32(NumberOf(version), fmt)

\* fwupd_version_format_from_string
fwupd_version_format_from_string(str) ==
    IF str \in {"plain", "pair", "number"}
    THEN CASE str = "plain" -> "PLAIN" [] str = "pair" -> "PAIR" [] str = "number" -> "NUMBER"
    ELSE "UNKNOWN"

----------------------------------------------------------------------------
(* The device and the component, as the task queries them *)

fu_device_has_flag(dev, flag) == flag \in dev.flags

fu_device_has_guid(dev, guid) == guid \in dev.guids

fu_device_has_protocol(dev, protocol) == protocol \in dev.protocols

\* g_strcmp0 on strings the code only tests for equality: 0 when both are
\* NULL or both are the same string
g_strcmp0(a, b) == IF a = b THEN 0 ELSE 1

\* xb_node_query_first (component, "releases/release"): the first release
\* in document order, NULL when there is none
FirstRelease(comp) ==
    IF comp.releases = <<>> THEN [present |-> FALSE, version |-> NO_VERSION]
    ELSE [present |-> TRUE, version |-> Head(comp.releases).version]

----------------------------------------------------------------------------
(* The trust evaluator: fu-keyring-utils.c *)

\* the evaluator was not invoked
NotCalled == [ok |-> FALSE, flags |-> {}, kind |-> "NOT_CALLED"]

\* evaluate(release) -> Result<TrustFlags, Error>: on success the flags to
\* adopt are written through the pointer, on failure nothing is written
fu_keyring_get_release_flags(flags_in, ev) ==
    IF ev.ok
    THEN [ret |-> TRUE, flags |-> ev.flags, error |-> NoError]
    ELSE [ret |-> FALSE, flags |-> flags_in,
          error |-> g_set_error(ev.kind, "keyring", <<>>)]

----------------------------------------------------------------------------
(* fu_install_task_check_requirements and its helpers *)

\* what a call returns and leaves in the task
Returned(ret, error, tf, dg, evaluated) ==
    [ret |-> ret, error |-> error, trust_flags |-> tf, is_downgrade |-> dg,
     evaluated |-> evaluated]

\* return FALSE with the error set, the task as it is
Fail(self, error) ==
    Returned(FALSE, error, self.trust_flags, self.is_downgrade, FALSE)

RECURSIVE verfmt_matches(_, _, _)
\* the loop of fu_install_task_check_verfmt from index i
verfmt_matches(fmt_dev, verfmts, i) ==
    IF i > Len(verfmts) THEN FALSE
    ELSE IF fmt_dev = fwupd_version_format_from_string(verfmts[i]) THEN TRUE
    ELSE verfmt_matches(fmt_dev, verfmts, i + 1)

\* NoError when the check passes
fu_install_task_check_verfmt(self, verfmts, flags) ==
    LET fmt_dev == self.device.version_format
    IN  IF fmt_dev = "UNKNOWN" /\ "FORCE" \notin flags
        THEN g_set_error("NOT_SUPPORTED",
                         "release version format but no device version format", <<>>)
        ELSE IF verfmt_matches(fmt_dev, verfmts, 1) THEN NoError
        ELSE IF "FORCE" \notin flags
        THEN g_set_error("NOT_SUPPORTED",
                         "Firmware version formats were different", <<>>)
        ELSE NoError

RECURSIVE has_firmware_requirement(_, _)
\* the loop of fu_install_task_check_requirements_version_check from index i
has_firmware_requirement(reqs, i) ==
    IF i > Len(reqs) THEN FALSE
    ELSE IF g_strcmp0(reqs[i].element, "firmware") = 0 /\ reqs[i].text = NULL THEN TRUE
    ELSE has_firmware_requirement(reqs, i + 1)

\* NoError when the check passes
fu_install_task_check_requirements_version_check(self) ==
    LET reqs == self.component.requires
    IN  IF reqs = <<>>
        THEN g_set_error("NOT_SUPPORTED", "no results for requires", <<>>)
        ELSE IF has_firmware_requirement(reqs, 1) THEN NoError
        ELSE g_set_error("NOT_SUPPORTED", "no firmware requirement", <<>>)

RECURSIVE provides_match(_, _, _)
\* the loop over provides from index i
provides_match(dev, provides, i) ==
    IF i > Len(provides) THEN FALSE
    ELSE IF fu_device_has_guid(dev, provides[i]) THEN TRUE
    ELSE provides_match(dev, provides, i + 1)

\* does the protocol match
protocol_unsupported(self, flags) ==
    /\ self.device.protocols # {}
    /\ self.component.protocol # NULL
    /\ ~fu_device_has_protocol(self.device, self.component.protocol)
    /\ "FORCE" \notin flags

\* a bug: FORCE unlocks the device
device_locked_unless_forced(self, flags) ==
    fu_device_has_flag(self.device, "LOCKED") /\ "FORCE" \notin flags

\* check the device is not locked; the install flags play no part
device_locked(self, flags) ==
    fu_device_has_flag(self.device, "LOCKED")

\* check the branch is not switching
branch_switching(self, flags) ==
    /\ "ALLOW_BRANCH_SWITCH" \notin flags
    /\ g_strcmp0(self.device.branch, self.component.branch) # 0

\* a bug: the test of the OFFLINE flag inverted
only_offline_inverted(self, flags) ==
    /\ "OFFLINE" \in flags
    /\ "FORCE" \notin flags
    /\ fu_device_has_flag(self.device, "ONLY_OFFLINE")

\* called with online update, test if device is supposed to allow this
only_offline(self, flags) ==
    /\ "OFFLINE" \notin flags
    /\ "FORCE" \notin flags
    /\ fu_device_has_flag(self.device, "ONLY_OFFLINE")

\* check the version formats match if set in the release
verfmt_checked(flags) ==
    "FORCE" \notin flags /\ "ALLOW_BRANCH_SWITCH" \notin flags

\* compare to the lowest supported version, if it exists
below_version_lowest(self, flags) ==
    /\ self.device.version_lowest # NO_VERSION
    /\ fu_common_vercmp_full(self.device.version_lowest, self.device.version,
                             self.device.version_format) > 0
    /\ "FORCE" \notin flags

\* check semver: the release version the device version is compared with
version_release_of(self, version_release_raw) ==
    IF self.device.version_format = "PLAIN" THEN version_release_raw
    ELSE fu_common_version_parse_from_format(version_release_raw,
                                             self.device.version_format)

only_version_upgrade(self, vercmp) ==
    fu_device_has_flag(self.device, "ONLY_VERSION_UPGRADE") /\ vercmp >= 0

\* a bug: FORCE allows the reinstall too
already_installed_unless_forced(vercmp, flags) ==
    vercmp = 0 /\ "ALLOW_REINSTALL" \notin flags /\ "FORCE" \notin flags

already_installed(vercmp, flags) ==
    vercmp = 0 /\ "ALLOW_REINSTALL" \notin flags

\* a bug: FORCE allows the downgrade too
downgrade_blocked_unless_forced(dg, flags) ==
    /\ dg
    /\ "ALLOW_OLDER" \notin flags
    /\ "ALLOW_BRANCH_SWITCH" \notin flags
    /\ "FORCE" \notin flags

downgrade_blocked(dg, flags) ==
    dg /\ "ALLOW_OLDER" \notin flags /\ "ALLOW_BRANCH_SWITCH" \notin flags

\* verify: the keyring's answer for the release
verify(self, dg, ev) ==
    LET k == fu_keyring_get_release_flags(self.trust_flags, ev)
    IN  IF ~k.ret
        THEN IF k.error.kind = "NOT_SUPPORTED"
             THEN Returned(TRUE, NoError, k.flags, dg, TRUE)
             ELSE Returned(FALSE, k.error, k.flags, dg, TRUE)
        ELSE Returned(TRUE, NoError, k.flags, dg, TRUE)

\* a bug: the same-version test made before the upgrade-only test
check_semver_same_first(self, flags, version_release_raw, ev) ==
    LET version_release == version_release_of(self, version_release_raw)
        vercmp == fu_common_vercmp_full(self.device.version, version_release,
                                        self.device.version_format)
        dg == vercmp > 0
    IN  IF already_installed(vercmp, flags)
        THEN Fail(self, g_set_error("VERSION_SAME",
                                    "Specified firmware is already installed", <<>>))
        ELSE IF only_version_upgrade(self, vercmp)
        THEN Fail(self, g_set_error("NOT_SUPPORTED",
                                    "Device only supports version upgrades", <<>>))
        ELSE IF downgrade_blocked(dg, flags)
        THEN Returned(FALSE,
                      g_set_error("VERSION_NEWER",
                                  "Specified firmware is older than installed", <<>>),
                      self.trust_flags, dg, FALSE)
        ELSE verify(self, dg, ev)

\* is this a downgrade or re-install
check_semver(self, flags, version_release_raw, ev) ==
    LET version_release == version_release_of(self, version_release_raw)
        vercmp == fu_common_vercmp_full(self.device.version, version_release,
                                        self.device.version_format)
        dg == vercmp > 0
    IN  IF only_version_upgrade(self, vercmp)
        THEN Fail(self, g_set_error("NOT_SUPPORTED",
                                    "Device only supports version upgrades", <<>>))
        ELSE IF already_installed(vercmp, flags)
        THEN Fail(self, g_set_error("VERSION_SAME",
                                    "Specified firmware is already installed", <<>>))
        ELSE IF downgrade_blocked(dg, flags)
        THEN Returned(FALSE,
                      g_set_error("VERSION_NEWER",
                                  "Specified firmware is older than installed", <<>>),
                      self.trust_flags, dg, FALSE)
        ELSE verify(self, dg, ev)

\* get device, get latest release, version formats, lowest version
check_versions(self, flags, ev) ==
    LET release == FirstRelease(self.component)
        verfmts == self.component.verfmts
        verfmt_error == fu_install_task_check_verfmt(self, verfmts, flags)
    IN  IF self.device.version = NO_VERSION
        THEN Fail(self, g_set_error("INTERNAL", "has no firmware version", <<>>))
        ELSE IF ~release.present
        THEN Fail(self, g_set_error("INVALID_FILE",
                                    "has no firmware update metadata", <<>>))
        ELSE IF release.version = NO_VERSION
        THEN Fail(self, g_set_error("INVALID_FILE",
                                    "Release has no firmware version", <<>>))
        ELSE IF verfmt_checked(flags) /\ verfmts # <<>> /\ verfmt_error # NoError
        THEN Fail(self, verfmt_error)
        ELSE IF below_version_lowest(self, flags)
        THEN Fail(self, g_set_error("VERSION_NEWER",
                                    "Specified firmware is older than the minimum required version",
                                    <<>>))
        ELSE check_semver(self, flags, release.version, ev)

\* version check, protocol, lock, branch, update abilities, offline
check_device(self, flags, ev) ==
    LET dev == self.device
        vc_error == fu_install_task_check_requirements_version_check(self)
        shown(branch) == IF branch # NULL THEN branch ELSE "default"
    IN  IF fu_device_has_flag(dev, "VERSION_CHECK_REQUIRED") /\ vc_error # NoError
        THEN Fail(self, g_prefix_error(vc_error,
                                       "device requires firmware with a version check: "))
        ELSE IF protocol_unsupported(self, flags)
        THEN Fail(self, g_set_error("NOT_SUPPORTED", "does not support protocol", <<>>))
        ELSE IF device_locked(self, flags)
        THEN Fail(self, g_set_error("NOT_SUPPORTED", "is locked", <<>>))
        ELSE IF branch_switching(self, flags)
        THEN Fail(self, g_set_error("NOT_SUPPORTED", "would switch firmware branch",
                                    <<shown(dev.branch), shown(self.component.branch)>>))
        ELSE IF ~fu_device_has_flag(dev, "UPDATABLE")
        THEN Fail(self, g_set_error("NOT_SUPPORTED",
                                    "does not currently allow updates", <<>>))
        ELSE IF only_offline(self, flags)
        THEN Fail(self, g_set_error("NOT_SUPPORTED",
                                    "only allows offline updates", <<>>))
        ELSE check_versions(self, flags, ev)

\* does this component provide a GUID the device has
fu_install_task_check_requirements(self, flags, ev) ==
    LET provides == self.component.provides
    IN  IF provides = <<>>
        THEN Fail(self, g_set_error("NOT_FOUND",
                                    "No supported devices found: no results", <<>>))
        ELSE IF ~provides_match(self.device, provides, 1)
        THEN Fail(self, g_set_error("NOT_FOUND", "No supported devices found", <<>>))
        ELSE check_device(self, flags, ev)

\* a bug: the trust level tested before the downgrade
fu_install_task_get_action_id_trust_first(self) ==
    IF ~fu_device_has_flag(self.device, "INTERNAL")
    THEN IF FWUPD_TRUST_FLAG_PAYLOAD \in self.trust_flags
         THEN "org.freedesktop.fwupd.update-hotplug-trusted"
         ELSE IF self.is_downgrade THEN "org.freedesktop.fwupd.downgrade-hotplug"
         ELSE "org.freedesktop.fwupd.update-hotplug"
    ELSE IF FWUPD_TRUST_FLAG_PAYLOAD \in self.trust_flags
         THEN "org.freedesktop.fwupd.update-internal-trusted"
         ELSE IF self.is_downgrade THEN "org.freedesktop.fwupd.downgrade-internal"
         ELSE "org.freedesktop.fwupd.update-internal"

\* the PolicyKit action ID to use for the install operation
fu_install_task_get_action_id(self) ==
    IF ~fu_device_has_flag(self.device, "INTERNAL")
    THEN IF self.is_downgrade THEN "org.freedesktop.fwupd.downgrade-hotplug"
         ELSE IF FWUPD_TRUST_FLAG_PAYLOAD \in self.trust_flags
         THEN "org.freedesktop.fwupd.update-hotplug-trusted"
         ELSE "org.freedesktop.fwupd.update-hotplug"
    ELSE IF self.is_downgrade THEN "org.freedesktop.fwupd.downgrade-internal"
         ELSE IF FWUPD_TRUST_FLAG_PAYLOAD \in self.trust_flags
         THEN "org.freedesktop.fwupd.update-internal-trusted"
         ELSE "org.freedesktop.fwupd.update-internal"

\* a bug: the second test written >=
fu_install_task_compare_ge(task1, task2) ==
    IF task1.device.order < task2.device.order THEN -1
    ELSE IF task1.device.order >= task2.device.order THEN 1
    ELSE 0

\* 1, 0 or -1 as task1 is greater than, equal to or less than task2
fu_install_task_compare(task1, task2) ==
    IF task1.device.order < task2.device.order THEN -1
    ELSE IF task1.device.order > task2.device.order THEN 1
    ELSE 0

RECURSIVE InsertTask(_, _)
\* task put before the first task of a sorted array that compares greater
InsertTask(task, sorted) ==
    IF sorted = <<>> THEN <<task>>
    ELSE IF fu_install_task_compare(task, Head(sorted)) < 0 THEN <<task>> \o sorted
    ELSE <<Head(sorted)>> \o InsertTask(task, Tail(sorted))

RECURSIVE SortTasks(_)
\* the array sorted with fu_install_task_compare as its comparator
SortTasks(array) ==
    IF array = <<>> THEN <<>>
    ELSE InsertTask(Head(array), SortTasks(Tail(array)))

----------------------------------------------------------------------------
(* Inputs.  Version strings are written in ASCII: "1.0" is <<49, 46, 48>>. *)

VER_1_0 == <<49, 46, 48>>

VER_1_1 == <<49, 46, 49>>

VER_2_0 == <<50, 46, 48>>

\* "9" and "10": ordered 9 < 10 as numbers and "10" < "9" as strings
VER_9 == <<57>>

VER_10 == <<49, 48>>

\* "65537": the packed word of 1.1 in the PAIR format
VER_65537 == <<54, 53, 53, 51, 55>>

Release(version) == [version |-> version]

Requirement(element, text) == [element |-> element, text |-> text]

\* a firmware requirement with a version predicate, and one without
RequiresVersioned == <<Requirement("firmware", "ge 1.0")>>

RequiresBare == <<Requirement("id", "org.freedesktop.fwupd"), Requirement("firmware", NULL)>>

\* the trust flag sets the evaluator may return
TrustFlagSets == SUBSET {FWUPD_TRUST_FLAG_PAYLOAD, FWUPD_TRUST_FLAG_METADATA}

\* what the evaluator may answer when it is invoked
EvOutcomes ==
    {[ok |-> TRUE, flags |-> tf, kind |-> "NONE"] : tf \in TrustFlagSets}
    \cup {[ok |-> FALSE, flags |-> {}, kind |-> k] :
            k \in {"NOT_SUPPORTED", "SIGNATURE_INVALID"}}

\* every device and component a family of inputs describes
ConfigsOf(F) ==
    {[device |->
        [flags |-> f, guids |-> {"guid-a"}, protocols |-> dp, branch |-> db,
         version |-> v, version_lowest |-> vl, version_format |-> fmt],
      component |->
        [provides |-> pr, requires |-> rq, protocol |-> cp, branch |-> cb,
         verfmts |-> vf, releases |-> rl]] :
        f \in F.flags, dp \in F.protocols, db \in F.branch, v \in F.version,
        vl \in F.version_lowest, fmt \in F.version_format,
        pr \in F.provides, rq \in F.requires, cp \in F.protocol,
        cb \in F.cbranch, vf \in F.verfmts, rl \in F.releases}

\* a device and a component that pass every check but the version comparison
Nominal ==
    [flags |-> {{"UPDATABLE"}}, protocols |-> {{"proto-a"}}, branch |-> {NULL},
     version |-> {VER_1_1}, version_lowest |-> {NO_VERSION},
     version_format |-> {"PAIR"},
     provides |-> {<<"guid-a">>}, requires |-> {RequiresBare},
     protocol |-> {"proto-a"}, cbranch |-> {NULL}, verfmts |-> {<<>>},
     releases |-> {<<Release(VER_2_0)>>}]

\* every check of the pipeline with an input that passes it and one that fails it
EachCheck ==
    [flags |-> SUBSET (DeviceFlags \ {"INTERNAL"}),
     protocols |-> {{"proto-a"}}, branch |-> {NULL, "beta"},
     version |-> {NO_VERSION, VER_1_1}, version_lowest |-> {NO_VERSION, VER_2_0},
     version_format |-> {"PAIR"},
     provides |-> {<<"guid-b">>, <<"guid-b", "guid-a">>},
     requires |-> {RequiresVersioned, RequiresBare},
     protocol |-> {"proto-a", "proto-b"}, cbranch |-> {NULL},
     verfmts |-> {<<>>, <<"plain">>},
     releases |-> {<<>>, <<Release(NO_VERSION)>>, <<Release(VER_1_0)>>,
                   <<Release(VER_65537)>>, <<Release(VER_2_0), Release(VER_1_0)>>}]

\* the checks up to the branch check, over every pair of branches
Branches ==
    [Nominal EXCEPT
        !.flags = {{"UPDATABLE"} \cup s : s \in SUBSET {"LOCKED", "VERSION_CHECK_REQUIRED"}}
                  \cup {{}},
        !.protocols = {{}, {"proto-a"}},
        !.branch = {NULL, "default", "beta"},
        !.cbranch = {NULL, "default", "beta"},
        !.provides = {<<>>, <<"guid-b">>, <<"guid-a">>},
        !.requires = {<<>>, RequiresVersioned, RequiresBare},
        !.protocol = {NULL, "proto-a", "proto-b"}]

\* the version checks, over the formats and the ways a version is written
Versions ==
    [Nominal EXCEPT
        !.flags = {{"UPDATABLE"} \cup s : s \in SUBSET {"ONLY_VERSION_UPGRADE"}},
        !.version = {VER_1_1, VER_10},
        !.version_lowest = {NO_VERSION, VER_1_0, VER_2_0},
        !.version_format = {"UNKNOWN", "PLAIN", "PAIR"},
        !.verfmts = {<<>>, <<"plain">>, <<"bogus", "pair">>},
        !.releases = {<<Release(VER_1_0)>>, <<Release(VER_1_1)>>, <<Release(VER_65537)>>,
                      <<Release(VER_9)>>, <<Release(VER_2_0), Release(VER_1_0)>>}]

\* one task checked any number of times: the device local or not, upgrade-only
\* or not, the release older, the same and newer
Repeated ==
    [Nominal EXCEPT
        !.flags = {{"UPDATABLE"} \cup s : s \in SUBSET {"INTERNAL", "ONLY_VERSION_UPGRADE"}},
        !.releases = {<<Release(VER_1_0)>>, <<Release(VER_65537)>>, <<Release(VER_2_0)>>}]

----------------------------------------------------------------------------
(* The state machine *)

\* the task, as the functions receive it
Self ==
    [device |-> device, component |-> component, trust_flags |-> trust_flags,
     is_downgrade |-> is_downgrade]

\* no call yet
NoCall ==
    [op |-> "new", flags |-> {}, ev |-> NotCalled, ret |-> FALSE, error |-> NoError,
     action_id |-> NULL, a |-> 0, b |-> 0, cmp |-> 0]

\* fu_install_task_new and fu_install_task_init on a device and a component
fu_install_task_new(cfg) ==
    /\ device = cfg.device
    /\ component = cfg.component
    /\ trust_flags = FWUPD_TRUST_FLAG_NONE
    /\ is_downgrade = FALSE
    /\ last = NoCall

Init ==
    /\ \E cfg \in ConfigsOf(Repeated) : fu_install_task_new(cfg)
    /\ tasks = <<>>

InitOnce ==
    /\ \E cfg \in ConfigsOf(EachCheck) \cup ConfigsOf(Branches) \cup ConfigsOf(Versions) :
            fu_install_task_new(cfg)
    /\ tasks = <<>>

\* a call of fu_install_task_check_requirements; the evaluator answers ev when
\* the call invokes it
CheckRequirements(flags, ev) ==
    LET r == fu_install_task_check_requirements(Self, flags, ev)
    IN  /\ r.evaluated <=> ev # NotCalled
        /\ trust_flags' = r.trust_flags
        /\ is_downgrade' = r.is_downgrade
        /\ last' = [NoCall EXCEPT !.op = "check_requirements", !.flags = flags,
                                  !.ev = ev, !.ret = r.ret, !.error = r.error]
        /\ UNCHANGED <<device, component, tasks>>

\* a call of fu_install_task_get_action_id
GetActionId ==
    /\ last' = [NoCall EXCEPT !.op = "get_action_id",
                              !.action_id = fu_install_task_get_action_id(Self)]
    /\ UNCHANGED <<device, component, trust_flags, is_downgrade, tasks>>

Next ==
    \/ \E flags \in SUBSET InstallFlags, ev \in EvOutcomes \cup {NotCalled} :
            CheckRequirements(flags, ev)
    \/ GetActionId

\* any sequence of calls on one task
Spec == Init /\ [][Next]_vars

NextOnce ==
    /\ last.op = "new"
    /\ \E flags \in SUBSET InstallFlags, ev \in EvOutcomes \cup {NotCalled} :
            CheckRequirements(flags, ev)

\* one task, checked once
SpecOnce == InitOnce /\ [][NextOnce]_vars

\* the devices' orders and the length of the array of tasks a caller sorts
MaxOrder == 1

MaxTasks == 3

Orders == (0 - MaxOrder)..MaxOrder

\* install tasks that differ in their device's order and in their derived state
OrderedTasks == {[device |-> [order |-> o], is_downgrade |-> dg] : o \in Orders, dg \in BOOLEAN}

InitCompare ==
    /\ \E cfg \in ConfigsOf(Nominal) : fu_install_task_new(cfg)
    /\ \E n \in 0..MaxTasks : tasks \in [1..n -> OrderedTasks]

\* a call of fu_install_task_compare on two tasks of the array
Compare(i, j) ==
    /\ last' = [NoCall EXCEPT !.op = "compare", !.a = i, !.b = j,
                              !.cmp = fu_install_task_compare(tasks[i], tasks[j])]
    /\ UNCHANGED <<device, component, trust_flags, is_downgrade, tasks>>

\* the caller sorts the array with fu_install_task_compare
Sort ==
    /\ tasks' = SortTasks(tasks)
    /\ last' = [NoCall EXCEPT !.op = "sort"]
    /\ UNCHANGED <<device, component, trust_flags, is_downgrade>>

NextCompare ==
    \/ \E i \in 1..Len(tasks), j \in 1..Len(tasks) : Compare(i, j)
    \/ Sort

\* an array of tasks, compared and sorted
SpecCompare == InitCompare /\ [][NextCompare]_vars

----------------------------------------------------------------------------
(* The claims *)

\* the latest call was fu_install_task_check_requirements
Checked == last.op = "check_requirements"

Succeeded == Checked /\ last.ret

Failed == Checked /\ ~last.ret

\* C1: a call of check_requirements that returns a failure leaves
\* task.trust_flags and task.is_downgrade exactly as they were before the call
C1_FailureLeavesDerivedState ==
    [][(last'.op = "check_requirements" /\ ~last'.ret)
        => (trust_flags' = trust_flags /\ is_downgrade' = is_downgrade)]_vars


\* the step of the pipeline, as the specification numbers them, that sets an error
StepOf(error) ==
    CASE error.msg = "No supported devices found: no results" -> 1
      [] error.msg = "No supported devices found" -> 1
      [] error.msg = "device requires firmware with a version check: no results for requires" -> 2
      [] error.msg = "device requires firmware with a version check: no firmware requirement" -> 2
      [] error.msg = "does not support protocol" -> 3
      [] error.msg = "is locked" -> 4
      [] error.msg = "would switch firmware branch" -> 5
      [] error.msg = "does not currently allow updates" -> 6
      [] error.msg = "only allows offline updates" -> 7
      [] error.msg = "has no firmware version" -> 8
      [] error.msg = "has no firmware update metadata" -> 9
      [] error.msg = "Release has no firmware version" -> 10
      [] error.msg = "release version format but no device version format" -> 11
      [] error.msg = "Firmware version formats were different" -> 11
      [] error.msg = "Specified firmware is older than the minimum required version" -> 12
      [] error.msg = "Device only supports version upgrades" -> 15
      [] error.msg = "Specified firmware is already installed" -> 16
      [] error.msg = "Specified firmware is older than installed" -> 17
      [] error.msg = "keyring" -> 18
      [] OTHER -> 0

\* the latest call failed at step k
FailedAt(k) == Failed /\ StepOf(last.error) = k

\* the latest call got past step k
Passed(k) == Checked /\ ~(Failed /\ StepOf(last.error) <= k)

\* the component provides a flashed-firmware GUID that the device has
ProvidesDeviceGuid ==
    \E i \in 1..Len(component.provides) : component.provides[i] \in device.guids

\* C2: for every install-flag set, FORCE included, check_requirements returns
\* success only if the component provides a GUID the device has, the device
\* is not LOCKED, is UPDATABLE and has a version, and the component has a
\* release whose first one has a version attribute
C2_SuccessNeedsSixChecks ==
    Succeeded =>
        /\ ProvidesDeviceGuid
        /\ "LOCKED" \notin device.flags
        /\ "UPDATABLE" \in device.flags
        /\ device.version # NO_VERSION
        /\ component.releases # <<>>
        /\ Head(component.releases).version # NO_VERSION

\* a forced call succeeded
C2_Witness ==
    Succeeded /\ "FORCE" \in last.flags /\ "ALLOW_BRANCH_SWITCH" \in last.flags


\* a branch, an absent one replaced by "default"
BranchOrDefault(branch) == IF branch = NULL THEN "default" ELSE branch

\* C3: when steps 1 to 4 pass and ALLOW_BRANCH_SWITCH is absent, the branch
\* check fails with NotSupported if and only if the device branch and the
\* component branch differ after an absent branch on either side is replaced
\* by "default"; FORCE does not change this, and with ALLOW_BRANCH_SWITCH a
\* mismatch never fails the check
C3_BranchCheckWithDefault ==
    Passed(4) =>
        IF "ALLOW_BRANCH_SWITCH" \in last.flags THEN ~FailedAt(5)
        ELSE /\ FailedAt(5) <=>
                    BranchOrDefault(device.branch) # BranchOrDefault(component.branch)
             /\ FailedAt(5) => last.error.kind = "NOT_SUPPORTED"

\* steps 13 and 14 of the specification on the task's device and first
\* release: the release version parsed for the device's format unless it is
\* PLAIN, then the three-way comparison with the device version
Vercmp ==
    LET raw == Head(component.releases).version
        fmt == device.version_format
        parsed == IF fmt = "PLAIN" THEN raw
                  ELSE fu_common_version_parse_from_format(raw, fmt)
    IN  fu_common_vercmp_full(device.version, parsed, fmt)

\* C4: whenever check_requirements returns success, task.is_downgrade equals
\* (compare(device version, parsed release version, format) > 0) and is true
\* only if ALLOW_OLDER or ALLOW_BRANCH_SWITCH is set; when the device version
\* is newer, all earlier steps pass and neither flag is set, the result is
\* VersionNewer, FORCE or not
C4_DowngradeDetermination ==
    /\ Succeeded =>
        /\ is_downgrade = (Vercmp > 0)
        /\ is_downgrade =>
            ("ALLOW_OLDER" \in last.flags \/ "ALLOW_BRANCH_SWITCH" \in last.flags)
    /\ (/\ Passed(16)
        /\ Vercmp > 0
        /\ "ALLOW_OLDER" \notin last.flags
        /\ "ALLOW_BRANCH_SWITCH" \notin last.flags)
        => FailedAt(17) /\ last.error.kind = "VERSION_NEWER"

\* a downgrade from "10" to "9" that ALLOW_OLDER alone allowed, FORCE absent
C4_Witness ==
    /\ Succeeded
    /\ is_downgrade
    /\ last.flags = {"ALLOW_OLDER"}
    /\ device.version = VER_10
    /\ Head(component.releases).version = VER_9

\* C5 as stated: for every device and flag set for which check_requirements
\* reaches the version comparison, vercmp == 0 without ALLOW_REINSTALL gives
\* VersionSame, and with ALLOW_REINSTALL the call proceeds to the downgrade
\* determination and the trust evaluation
C5_SameVersionAsStated ==
    (Passed(12) /\ Vercmp = 0) =>
        IF "ALLOW_REINSTALL" \notin last.flags
        THEN FailedAt(16) /\ last.error.kind = "VERSION_SAME"
        ELSE last.ev # NotCalled

\* C5 amended: when check_requirements reaches the version comparison with
\* vercmp == 0 on a device without ONLY_VERSION_UPGRADE, it returns
\* VersionSame if ALLOW_REINSTALL is absent and goes on to the downgrade
\* determination (no downgrade) and the trust evaluation if it is present; a
\* device with ONLY_VERSION_UPGRADE fails the upgrade-only check with
\* NotSupported in both cases
C5_SameVersion ==
    (Passed(12) /\ Vercmp = 0) =>
        IF "ONLY_VERSION_UPGRADE" \in device.flags
        THEN FailedAt(15) /\ last.error.kind = "NOT_SUPPORTED"
        ELSE IF "ALLOW_REINSTALL" \notin last.flags
        THEN FailedAt(16) /\ last.error.kind = "VERSION_SAME"
        ELSE last.ev # NotCalled /\ ~is_downgrade

\* the release "65537" is the device's 1.1 once parsed as a PAIR, and the
\* reinstall was allowed and went on to the trust evaluation
C5_Witness ==
    /\ Checked
    /\ Passed(16)
    /\ device.version_format = "PAIR"
    /\ Head(component.releases).version = VER_65537
    /\ device.version = VER_1_1
    /\ "ALLOW_REINSTALL" \in last.flags
    /\ last.ev.ok


\* C6: if the latest call reached the trust evaluation and the evaluator
\* failed with NOT_SUPPORTED, the call returns success and task.trust_flags
\* is empty afterwards, also after an earlier successful run; if it failed
\* with another kind the call fails with that error; if it succeeded,
\* task.trust_flags equals the flags it returned
C6_TrustEvaluation ==
    (Checked /\ last.ev # NotCalled) =>
        IF last.ev.ok THEN last.ret /\ trust_flags = last.ev.flags
        ELSE IF last.ev.kind = "NOT_SUPPORTED"
        THEN last.ret /\ trust_flags = FWUPD_TRUST_FLAG_NONE
        ELSE ~last.ret /\ last.error.kind = last.ev.kind

\* the tier of the specification's table
Tier(internal, downgrade, trusted) ==
    LET locality == IF internal THEN "internal" ELSE "hotplug"
    IN  IF downgrade THEN "org.freedesktop.fwupd.downgrade-" \o locality
        ELSE IF trusted THEN "org.freedesktop.fwupd.update-" \o locality \o "-trusted"
        ELSE "org.freedesktop.fwupd.update-" \o locality

\* C7: get_action_id returns the tier of the table: downgrade-<locality>
\* whenever is_downgrade is true, whatever the payload-trusted bit, otherwise
\* update-<locality>-trusted with the bit and update-<locality> without it,
\* locality internal iff the device has INTERNAL; nothing else plays a part
C7_ActionIdTable ==
    last.op = "get_action_id" =>
        last.action_id = Tier("INTERNAL" \in device.flags, is_downgrade,
                              FWUPD_TRUST_FLAG_PAYLOAD \in trust_flags)

\* a trusted downgrade of an internal device: the downgrade tier
C7_Witness ==
    /\ last.op = "get_action_id"
    /\ is_downgrade
    /\ FWUPD_TRUST_FLAG_PAYLOAD \in trust_flags
    /\ "INTERNAL" \in device.flags
    /\ last.action_id = "org.freedesktop.fwupd.downgrade-internal"

\* the sign of a difference
Sign(n) == IF n < 0 THEN -1 ELSE IF n > 0 THEN 1 ELSE 0

\* C8: fu_install_task_compare returns -1, 0 or 1 as order(task1) is less
\* than, equal to or greater than order(task2), whatever else the tasks hold;
\* it is antisymmetric and transitive, and an array sorted with it is in
\* non-decreasing device order
C8_CompareByOrder ==
    /\ last.op = "compare" =>
        last.cmp = Sign(tasks[last.a].device.order - tasks[last.b].device.order)
    /\ \A i, j, k \in 1..Len(tasks) :
        /\ fu_install_task_compare(tasks[i], tasks[j])
            = 0 - fu_install_task_compare(tasks[j], tasks[i])
        /\ (/\ fu_install_task_compare(tasks[i], tasks[j]) <= 0
            /\ fu_install_task_compare(tasks[j], tasks[k]) <= 0)
            => fu_install_task_compare(tasks[i], tasks[k]) <= 0
    /\ last.op = "sort" =>
        \A i, j \in 1..Len(tasks) :
            i < j => tasks[i].device.order <= tasks[j].device.order

\* two tasks of the same order and different derived state compared equal
C8_Witness ==
    /\ last.op = "compare"
    /\ last.a # last.b
    /\ tasks[last.a] # tasks[last.b]
    /\ last.cmp = 0

\* the device has a version and the first release has one
HasVersions ==
    /\ device.version # NO_VERSION
    /\ component.releases # <<>>
    /\ Head(component.releases).version # NO_VERSION

\* the check of step k of the specification, taken alone, fails on the task's
\* device and component under the flags of the latest call; the branches of
\* step 5 are compared as they are (C3 is about an absent branch)
WouldFail(k) ==
    LET F == last.flags
    IN  CASE k = 1 -> ~ProvidesDeviceGuid
          [] k = 2 ->
                /\ "VERSION_CHECK_REQUIRED" \in device.flags
                /\ ~\E i \in 1..Len(component.requires) :
                        /\ component.requires[i].element = "firmware"
                        /\ component.requires[i].text = NULL
          [] k = 3 ->
                /\ device.protocols # {}
                /\ component.protocol # NULL
                /\ component.protocol \notin device.protocols
                /\ "FORCE" \notin F
          [] k = 4 -> "LOCKED" \in device.flags
          [] k = 5 ->
                "ALLOW_BRANCH_SWITCH" \notin F /\ device.branch # component.branch
          [] k = 6 -> "UPDATABLE" \notin device.flags
          [] k = 7 ->
                /\ "ONLY_OFFLINE" \in device.flags
                /\ "OFFLINE" \notin F
                /\ "FORCE" \notin F
          [] k = 8 -> device.version = NO_VERSION
          [] k = 9 -> component.releases = <<>>
          [] k = 10 ->
                component.releases # <<>> /\ Head(component.releases).version = NO_VERSION
          [] k = 11 ->
                /\ "FORCE" \notin F
                /\ "ALLOW_BRANCH_SWITCH" \notin F
                /\ component.verfmts # <<>>
                /\ \/ device.version_format = "UNKNOWN"
                   \/ \A i \in 1..Len(component.verfmts) :
                        fwupd_version_format_from_string(component.verfmts[i])
                            # device.version_format
          [] k = 12 ->
                /\ device.version # NO_VERSION
                /\ device.version_lowest # NO_VERSION
                /\ fu_common_vercmp_full(device.version_lowest, device.version,
                                         device.version_format) > 0
                /\ "FORCE" \notin F
          [] k = 15 ->
                HasVersions /\ "ONLY_VERSION_UPGRADE" \in device.flags /\ Vercmp >= 0
          [] k = 16 -> HasVersions /\ Vercmp = 0 /\ "ALLOW_REINSTALL" \notin F
          [] k = 17 ->
                /\ HasVersions
                /\ Vercmp > 0
                /\ "ALLOW_OLDER" \notin F
                /\ "ALLOW_BRANCH_SWITCH" \notin F
          [] OTHER -> FALSE

\* the error kind the specification gives for a failure of step k
KindOfStep(k) ==
    CASE k = 1 -> "NOT_FOUND"
      [] k \in {2, 3, 4, 5, 6, 7, 11, 15} -> "NOT_SUPPORTED"
      [] k = 8 -> "INTERNAL"
      [] k \in {9, 10} -> "INVALID_FILE"
      [] k \in {12, 17} -> "VERSION_NEWER"
      [] k = 16 -> "VERSION_SAME"
      [] OTHER -> "NONE"

FailingSteps == {k \in 1..17 : WouldFail(k)}

LowestOf(S) == CHOOSE k \in S : \A j \in S : k <= j

\* C9: check_requirements evaluates its checks in the order of steps 1 to 18;
\* when several checks would fail the returned error is that of the
\* lowest-numbered failing step, and the trust evaluator is invoked only when
\* all of steps 1 to 17 have passed
C9_FirstFailingStep ==
    Checked =>
        IF FailingSteps = {}
        THEN last.ev # NotCalled /\ (Failed => FailedAt(18))
        ELSE /\ last.ev = NotCalled
             /\ FailedAt(LowestOf(FailingSteps))
             /\ last.error.kind = KindOfStep(LowestOf(FailingSteps))

\* an upgrade-only device at the release's version, no ALLOW_REINSTALL: the
\* upgrade-only error, not VersionSame
C9_Witness == FailedAt(15) /\ WouldFail(16) /\ Cardinality(FailingSteps) = 2

\* the task as fu_install_task_new made it
Fresh == [Self EXCEPT !.trust_flags = FWUPD_TRUST_FLAG_NONE, !.is_downgrade = FALSE]

\* the call on the new task again, with other flags and the same evaluator
Again(flags) == fu_install_task_check_requirements(Fresh, flags, last.ev)

\* C10: install flags only relax check_requirements: a success under F is a
\* success with the same is_downgrade and trust_flags under every flag set
\* that adds flags to F; FORCE suppresses only the protocol, offline-only,
\* version-format and minimum-version failures; an ONLY_OFFLINE device fails
\* with NotSupported without OFFLINE and FORCE and passes that check with
\* OFFLINE added
C10_FlagsOnlyRelax ==
    /\ Succeeded =>
        \A G \in SUBSET InstallFlags :
            LET r == Again(last.flags \cup G)
            IN  r.ret /\ r.is_downgrade = is_downgrade /\ r.trust_flags = trust_flags
    /\ (Failed /\ "FORCE" \notin last.flags) =>
        LET r == Again(last.flags \cup {"FORCE"})
        IN  IF StepOf(last.error) \in {3, 7, 11, 12}
            THEN StepOf(r.error) # StepOf(last.error)
            ELSE ~r.ret /\ r.error = last.error
    /\ (/\ Passed(6)
        /\ "ONLY_OFFLINE" \in device.flags
        /\ "OFFLINE" \notin last.flags
        /\ "FORCE" \notin last.flags)
        => /\ FailedAt(7)
           /\ last.error.kind = "NOT_SUPPORTED"
           /\ StepOf(Again(last.flags \cup {"OFFLINE"}).error) # 7

\* an ONLY_OFFLINE device checked with OFFLINE alone, successfully
C10_Witness ==
    Succeeded /\ "ONLY_OFFLINE" \in device.flags /\ last.flags = {"OFFLINE"}

====
